---- MODULE Spec2Model ----
(***************************************************************************)
(* The create-image pipeline of the image router: one transaction that     *)
(* writes a generation batch, its generations and their async tasks, then  *)
(* a fire-and-forget dispatch of one remote createImage call per task,     *)
(* with a per-task rejection handler and a whole-batch fallback.           *)
(***************************************************************************)
EXTENDS Naturals, Integers, Sequences, FiniteSets, TLC

\* ---------------------------------------------------------------- bounds
NumReq == 2
MaxImageNum == 2
MaxTotalImages == 2
MaxUrls == 2
MaxInvocations == 2

Reqs == 1..NumReq

\* ------------------------------------------------------------ vocabulary
\* null in an id or seed column (ids and seeds are positive numbers).
Null == 0
Undefined == "undefined"
NoResponse == [pending |-> TRUE]
NotThrown == [thrown |-> FALSE]
NoRejection == [rejected |-> FALSE]
NoError == [type |-> "none", message |-> ""]

Pending == "pending"
Success == "success"
Error == "error"
ServerError == "ServerError"

\* e.message of a rejection or of a thrown Error: a string, possibly empty,
\* or undefined when the value carries none.
Messages == {"boom", "", Undefined}

\* Values createAsyncCaller may throw: Error objects, or anything else.
ThrownValues ==
    { [isError |-> TRUE, message |-> "boom"],
      [isError |-> TRUE, message |-> ""],
      [isError |-> FALSE, message |-> Undefined] }

VARIABLES
    pc,                 \* position of each request's handler
    input,              \* the validated input of each request
    generationBatches,  \* committed rows of generation_batches
    generations,        \* committed rows of generations
    asyncTasks,         \* committed rows of async_tasks
    tx,                 \* rows written inside each open transaction
    createdGenerations, \* what the generations insert returned
    cb,                 \* the Promise.all callbacks, one per generation
    thrown,             \* what createAsyncCaller threw, if it did
    calls,              \* the remote createImage calls issued, in order
    fallback,           \* the fallback's updates, one per task
    response            \* what the handler returned to the caller

\* The image store of the client (zustand) and what its actions talk to.
VARIABLES
    isCreating,               \* the store's isCreating flag
    activeGenerationTopicId,  \* the topic the store shows, Null when none
    generationBatchesMap,     \* the store's batches, per topic
    stored,                   \* the batches the server holds, per topic
    cpc,                      \* position of the running store action
    frame,                    \* the locals of the running store action
    request,                  \* the last imageService.createImage request
    outcome,                  \* how the last store action settled
    invocations               \* store actions started so far

serverVars == <<pc, input, generationBatches, generations, asyncTasks, tx,
                createdGenerations, cb, thrown, calls, fallback, response>>

clientVars == <<isCreating, activeGenerationTopicId, generationBatchesMap, stored,
                cpc, frame, request, outcome, invocations>>

vars == <<serverVars, clientVars>>

\* -------------------------------------------------------------- helpers
Range(s) == { s[i] : i \in DOMAIN s }

Min(S) == CHOOSE x \in S : \A y \in S : x <= y

Ids(rows) == { row.id : row \in rows }

\* The store's id generator never repeats an id. Each request draws its ids
\* from a range of its own, so that what one open transaction is given does
\* not depend on the others: the smallest id of the range no row has yet.
IdRange(r) == ((r - 1) * MaxImageNum + 1)..(r * MaxImageNum)

FreshId(r, used) == Min({ n \in IdRange(r) \cup {r * MaxImageNum + 1} : n \notin used })

EmptyTx == [generationBatches |-> {}, generations |-> {}, asyncTasks |-> {}]

\* params as the client sends them: the prompt (Undefined when the field is
\* missing), and imageUrls (hasImageUrls tells whether the field is there).
PlainParams == [prompt |-> "a cat", hasImageUrls |-> FALSE, imageUrls |-> <<>>]

NoInput == [imageNum |-> 0, hasSeed |-> FALSE, params |-> PlainParams]

TotalImages == LET Sum[k \in 0..NumReq] == IF k = 0 THEN 0 ELSE Sum[k - 1] + input[k].imageNum
               IN Sum[NumReq]

\* The topics of the client: each store action creates at most one.
Topics == 1..MaxInvocations

NoFrame == [kind |-> "none"]
NoRequest == [sent |-> FALSE]
NoOutcome == [settled |-> FALSE]

InitClient ==
    /\ isCreating = FALSE
    /\ activeGenerationTopicId = Null
    /\ generationBatchesMap = [t \in Topics |-> <<>>]
    /\ stored = [t \in Topics |-> <<>>]
    /\ cpc = "idle"
    /\ frame = NoFrame
    /\ request = NoRequest
    /\ outcome = NoOutcome
    /\ invocations = 0

Init ==
    /\ InitClient
    /\ pc = [r \in Reqs |-> "idle"]
    /\ input = [r \in Reqs |-> NoInput]
    /\ generationBatches = {}
    /\ generations = {}
    /\ asyncTasks = {}
    /\ tx = [r \in Reqs |-> EmptyTx]
    /\ createdGenerations = [r \in Reqs |-> <<>>]
    /\ cb = [r \in Reqs |-> <<>>]
    /\ thrown = [r \in Reqs |-> NotThrown]
    /\ calls = [r \in Reqs |-> <<>>]
    /\ fallback = [r \in Reqs |-> <<>>]
    /\ response = [r \in Reqs |-> NoResponse]

\* ------------------------------------------------------ request arrival
\* The image URLs a client may send: two the file service resolves to a key,
\* and one it throws on.
Urls == {"https://cdn/files/a.png", "https://cdn/files/b.png", "blob:c"}

UrlLists ==
    { l \in UNION { [1..k -> Urls] : k \in 0..MaxUrls } :
        \A i, j \in DOMAIN l : i # j => l[i] # l[j] }

\* The params of the requests whose imageUrls the handler may have to rewrite.
ParamsWithUrls ==
    { [prompt |-> p, hasImageUrls |-> TRUE, imageUrls |-> l] :
        p \in {"a cat", Undefined}, l \in UrlLists }
    \cup { PlainParams, [PlainParams EXCEPT !.prompt = Undefined] }

\* Faulty variant: the prompt is optional in the schema.
PromptOptional(params) == TRUE

\* createImageInputSchema: params.prompt is a required string.
SchemaAccepts(params) == params.prompt # Undefined

\* A request that passed createImageInputSchema enters the handler and opens
\* the transaction. Requests are interchangeable: they arrive in index order.
Receive(r, seedFields, paramsSent) ==
    /\ pc[r] = "idle"
    /\ \A q \in Reqs : q < r => pc[q] # "idle"
    /\ \E n \in 1..MaxImageNum, s \in seedFields, params \in paramsSent :
        /\ SchemaAccepts(params)
        /\ TotalImages + n <= MaxTotalImages
        /\ input' = [input EXCEPT ![r] = [imageNum |-> n, hasSeed |-> s, params |-> params]]
    /\ pc' = [pc EXCEPT ![r] = "insertBatch"]
    /\ UNCHANGED <<generationBatches, generations, asyncTasks, tx, createdGenerations,
                   cb, thrown, calls, fallback, response,
                   clientVars>>

\* The input does not pass the schema: the procedure throws to the caller
\* and the handler never runs.
RejectInput(r, paramsSent) ==
    /\ pc[r] = "idle"
    /\ \A q \in Reqs : q < r => pc[q] # "idle"
    /\ \E n \in 1..MaxImageNum, params \in paramsSent :
        /\ ~SchemaAccepts(params)
        /\ TotalImages + n <= MaxTotalImages
        /\ input' = [input EXCEPT ![r] = [imageNum |-> n, hasSeed |-> FALSE, params |-> params]]
    /\ pc' = [pc EXCEPT ![r] = "rejected"]
    /\ response' = [response EXCEPT ![r] = [success |-> FALSE, rolledBack |-> 0]]
    /\ UNCHANGED <<generationBatches, generations, asyncTasks, tx, createdGenerations,
                   cb, thrown, calls, fallback,
                   clientVars>>

\* -------------------------------------------------- the URL-to-key rewrite
Throws == "throws"

\* fileService.getKeyFromFullUrl(url): the storage key of a URL of the file
\* service, an exception for anything else.
getKeyFromFullUrl(url) ==
    CASE url = "https://cdn/files/a.png" -> "files/a.png"
      [] url = "https://cdn/files/b.png" -> "files/b.png"
      [] OTHER -> Throws

\* The first URL the resolver throws on ends the map with that exception.
MapThrows(imageUrls) ==
    \E i \in DOMAIN imageUrls : getKeyFromFullUrl(imageUrls[i]) = Throws

\* params.imageUrls.map(url => getKeyFromFullUrl(url)): the keys, in the
\* order of the URLs.
imageKeys(imageUrls) == [i \in DOMAIN imageUrls |-> getKeyFromFullUrl(imageUrls[i])]

\* Faulty variant: each URL is resolved in a try of its own, so the URLs the
\* resolver throws on are kept next to the keys of the others.
configForDatabasePerUrl(params) ==
    IF params.hasImageUrls /\ Len(params.imageUrls) > 0
    THEN [params EXCEPT !.imageUrls =
             [i \in DOMAIN params.imageUrls |->
                 IF getKeyFromFullUrl(params.imageUrls[i]) = Throws
                 THEN params.imageUrls[i]
                 ELSE getKeyFromFullUrl(params.imageUrls[i])]]
    ELSE params

\* configForDatabase: a copy of params, its imageUrls replaced by the keys
\* when there are URLs and every one of them resolves.
configForDatabase(params) ==
    IF params.hasImageUrls /\ Len(params.imageUrls) > 0
    THEN IF MapThrows(params.imageUrls)
         THEN params
         ELSE [params EXCEPT !.imageUrls = imageKeys(params.imageUrls)]
    ELSE params

\* ------------------------------------------------------- the transaction
\* generateUniqueSeeds(imageNum): imageNum pairwise distinct seed values.
SeedValues == 1..MaxImageNum

generateUniqueSeeds(n) ==
    { s \in [1..n -> SeedValues] : \A i, j \in 1..n : i # j => s[i] # s[j] }

\* The seeds of a request: unique seeds when params has a seed field, else nulls.
Seeds(r) ==
    IF input[r].hasSeed
    THEN generateUniqueSeeds(input[r].imageNum)
    ELSE { [i \in 1..input[r].imageNum |-> Null] }

\* Faulty variant: every generation is given the first seed.
NewGenerationsSameSeed(n, batchId, seeds) ==
    [i \in 1..n |-> [generationBatchId |-> batchId, seed |-> seeds[1]]]

\* newGenerations: one per index, each with the batch's id and its own seed.
NewGenerations(n, batchId, seeds) ==
    [i \in 1..n |-> [generationBatchId |-> batchId, seed |-> seeds[i]]]

\* insert ... returning(): the store gives each new row a fresh id, in order.
RECURSIVE InsertedIds(_, _, _)
InsertedIds(r, n, used) ==
    IF n = 0 THEN <<>>
    ELSE LET id == FreshId(r, used) IN <<id>> \o InsertedIds(r, n - 1, used \cup {id})

TxBatch(r) == CHOOSE b \in tx[r].generationBatches : TRUE

\* 1. insert the generation batch.
TxInsertBatch(r) ==
    /\ pc[r] = "insertBatch"
    /\ tx' = [tx EXCEPT ![r].generationBatches =
                  { [id |-> FreshId(r, {}), prompt |-> input[r].params.prompt,
                     config |-> configForDatabase(input[r].params), req |-> r] }]
    /\ pc' = [pc EXCEPT ![r] = "insertGenerations"]
    /\ UNCHANGED <<input, generationBatches, generations, asyncTasks, createdGenerations,
                   cb, thrown, calls, fallback, response,
                   clientVars>>

\* 2. insert imageNum generations; every callback of the Promise.all starts.
TxInsertGenerations(r) ==
    /\ pc[r] = "insertGenerations"
    /\ \E seeds \in Seeds(r) :
        LET n == input[r].imageNum
            new == NewGenerations(n, TxBatch(r).id, seeds)
            ids == InsertedIds(r, n, {})
            rows == [i \in 1..n |->
                        [id |-> ids[i], generationBatchId |-> new[i].generationBatchId,
                         seed |-> new[i].seed, asyncTaskId |-> Null, req |-> r]]
        IN /\ createdGenerations' = [createdGenerations EXCEPT ![r] = rows]
           /\ tx' = [tx EXCEPT ![r].generations = Range(rows)]
           /\ cb' = [cb EXCEPT ![r] = [i \in 1..n |-> [pc |-> "insert", asyncTaskId |-> Null]]]
    /\ pc' = [pc EXCEPT ![r] = "createTasks"]
    /\ UNCHANGED <<input, generationBatches, generations, asyncTasks, thrown, calls,
                   fallback, response,
                   clientVars>>

\* Faulty variant: the callbacks share one task row instead of inserting one each.
CreatedAsyncTaskShared(r) ==
    IF tx[r].asyncTasks # {}
    THEN CHOOSE t \in tx[r].asyncTasks : TRUE
    ELSE [id |-> FreshId(r, {}), status |-> Pending, error |-> NoError, req |-> r]

\* The task row one callback inserts: a new Pending row of its own.
CreatedAsyncTask(r) ==
    [id |-> FreshId(r, Ids(tx[r].asyncTasks)), status |-> Pending, error |-> NoError, req |-> r]

\* 3a. callback i inserts its async task.
TxInsertTask(r, i) ==
    /\ pc[r] = "createTasks"
    /\ i \in DOMAIN cb[r]
    /\ cb[r][i].pc = "insert"
    /\ LET task == CreatedAsyncTask(r)
       IN /\ tx' = [tx EXCEPT ![r].asyncTasks = @ \cup {task}]
          /\ cb' = [cb EXCEPT ![r][i] = [pc |-> "update", asyncTaskId |-> task.id]]
    /\ UNCHANGED <<pc, input, generationBatches, generations, asyncTasks,
                   createdGenerations, thrown, calls, fallback, response,
                   clientVars>>

\* update generations set asyncTaskId where id = generation.id
WriteBack(row, generationId, asyncTaskId) ==
    IF row.id = generationId THEN [row EXCEPT !.asyncTaskId = asyncTaskId] ELSE row

\* 3b. callback i writes the task's id back onto its generation.
TxUpdateGeneration(r, i) ==
    /\ pc[r] = "createTasks"
    /\ i \in DOMAIN cb[r]
    /\ cb[r][i].pc = "update"
    /\ tx' = [tx EXCEPT ![r].generations =
                  { WriteBack(row, createdGenerations[r][i].id, cb[r][i].asyncTaskId) : row \in @ }]
    /\ cb' = [cb EXCEPT ![r][i].pc = "done"]
    /\ UNCHANGED <<pc, input, generationBatches, generations, asyncTasks,
                   createdGenerations, thrown, calls, fallback, response,
                   clientVars>>

\* Faulty variant: the callbacks are started and not awaited.
CallbacksNotAwaited(r) == \A i \in DOMAIN cb[r] : cb[r][i].pc \in {"insert", "update", "done"}

\* await Promise.all(...): every callback has returned.
AllCallbacksDone(r) == \A i \in DOMAIN cb[r] : cb[r][i].pc = "done"

\* generationsWithTasks: each created generation (as the insert returned it)
\* with the id of the task created for it.
generationsWithTasks(r) ==
    [i \in DOMAIN cb[r] |->
        [generation |-> createdGenerations[r][i], asyncTaskId |-> cb[r][i].asyncTaskId]]

\* The transaction's callback returned: its rows become visible together.
TxCommit(r) ==
    /\ pc[r] = "createTasks"
    /\ AllCallbacksDone(r)
    /\ generationBatches' = generationBatches \cup tx[r].generationBatches
    /\ generations' = generations \cup tx[r].generations
    /\ asyncTasks' = asyncTasks \cup tx[r].asyncTasks
    /\ tx' = [tx EXCEPT ![r] = EmptyTx]
    /\ pc' = [pc EXCEPT ![r] = "createCaller"]
    /\ UNCHANGED <<input, createdGenerations, cb, thrown, calls, fallback, response,
                   clientVars>>

\* How many rows the open transaction has written so far.
TxRowCount(r) ==
    Cardinality(tx[r].generationBatches) + Cardinality(tx[r].generations)
        + Cardinality(tx[r].asyncTasks)

\* Faulty variant: the batch is inserted through the connection, not the transaction.
RolledBackKeepsBatch(r) == tx[r].generationBatches

\* The batch rows of the transaction still visible after its rollback: every
\* statement goes through tx, so none.
RolledBack(r) == {}

\* A statement of the transaction fails (the batch insert, the generations
\* insert, a task insert, a write-back, or the commit itself): the
\* transaction rolls back and the request fails to the caller.
TxFail(r) ==
    /\ pc[r] \in {"insertBatch", "insertGenerations", "createTasks"}
    /\ generationBatches' = generationBatches \cup RolledBack(r)
    /\ tx' = [tx EXCEPT ![r] = EmptyTx]
    /\ pc' = [pc EXCEPT ![r] = "failed"]
    /\ response' = [response EXCEPT ![r] = [success |-> FALSE, rolledBack |-> TxRowCount(r)]]
    /\ createdGenerations' = [createdGenerations EXCEPT ![r] = <<>>]
    /\ cb' = [cb EXCEPT ![r] = <<>>]
    /\ UNCHANGED <<input, generations, asyncTasks, thrown, calls, fallback,
                   clientVars>>

\* ---------------------------------------------------- after the commit
createdBatch(r) == CHOOSE b \in generationBatches \cup tx[r].generationBatches : b.req = r

\* Faulty variant: the dispatch sits inside the transaction's callback.
TransactionCallbackReturning(r) == pc[r] = "createTasks" /\ AllCallbacksDone(r)

\* await serverDB.transaction(...): the handler goes on once it has committed.
TransactionCommitted(r) == pc[r] = "createCaller"

\* The handler's return value.
SuccessResponse(r) ==
    [success |-> TRUE,
     data |-> [batch |-> createdBatch(r),
               generations |-> [i \in DOMAIN cb[r] |-> generationsWithTasks(r)[i].generation]]]

\* Faulty variant: the task id is read off the generation row the insert
\* returned, which has none yet.
RemoteCallStaleTaskId(item, params) ==
    [taskId |-> item.generation.asyncTaskId, generationId |-> item.generation.id,
     params |-> params, state |-> "inflight", e |-> NoRejection, remote |-> FALSE]

\* The input of the remote call for one (generation, task) pair.
RemoteCall(item, params) ==
    [taskId |-> item.asyncTaskId, generationId |-> item.generation.id, params |-> params,
     state |-> "inflight", e |-> NoRejection, remote |-> FALSE]

\* Faulty variant: the call is given the config stored in the database.
DispatchParamsFromConfig(r) == configForDatabase(input[r].params)

\* The params handed to every remote call: the request's own.
DispatchParams(r) == input[r].params

\* createAsyncCaller resolves: the forEach issues every remote call, none
\* awaited, and the handler returns, all in the same turn of the event loop.
DispatchAndReturn(r) ==
    /\ TransactionCommitted(r)
    /\ calls' = [calls EXCEPT ![r] =
                    [i \in DOMAIN cb[r] |-> RemoteCall(generationsWithTasks(r)[i], DispatchParams(r))]]
    /\ response' = [response EXCEPT ![r] = SuccessResponse(r)]
    /\ pc' = [pc EXCEPT ![r] = "done"]
    /\ UNCHANGED <<input, generationBatches, generations, asyncTasks, tx,
                   createdGenerations, cb, thrown, fallback,
                   clientVars>>

\* Faulty variant: the catch leaves out the tasks whose calls were issued.
FallbackUpdatesSkipIssued(r, issued) ==
    [i \in DOMAIN cb[r] |-> IF i <= issued THEN "skipped" ELSE "pending"]

\* generationsWithTasks.map(...) in the catch: one update per task of the
\* batch, however many calls the try block had issued.
FallbackUpdates(r, issued) == [i \in DOMAIN cb[r] |-> "pending"]

\* createAsyncCaller throws: the catch issues one update per task and awaits
\* Promise.allSettled of them.
CreateAsyncCallerThrows(r) ==
    /\ TransactionCommitted(r)
    /\ \E e \in ThrownValues : thrown' = [thrown EXCEPT ![r] = e]
    /\ fallback' = [fallback EXCEPT ![r] = FallbackUpdates(r, 0)]
    /\ pc' = [pc EXCEPT ![r] = "fallback"]
    /\ UNCHANGED <<input, generationBatches, generations, asyncTasks, tx,
                   createdGenerations, cb, calls, response,
                   clientVars>>

\* The caller was constructed and the forEach issued the calls of the first
\* k - 1 pairs; issuing the call of pair k throws synchronously. The throw
\* leaves the loop and lands in the same catch as a throw of
\* createAsyncCaller.
DispatchThrows(r, k) ==
    /\ TransactionCommitted(r)
    /\ k \in DOMAIN cb[r]
    /\ calls' = [calls EXCEPT ![r] =
                    [i \in 1..(k - 1) |->
                        RemoteCall(generationsWithTasks(r)[i], DispatchParams(r))]]
    /\ \E e \in ThrownValues :
          thrown' = [thrown EXCEPT ![r] =
                        [isError |-> e.isError, message |-> e.message, issued |-> k - 1]]
    /\ fallback' = [fallback EXCEPT ![r] = FallbackUpdates(r, k - 1)]
    /\ pc' = [pc EXCEPT ![r] = "fallback"]
    /\ UNCHANGED <<input, generationBatches, generations, asyncTasks, tx,
                   createdGenerations, cb, response,
                   clientVars>>

\* asyncTaskModel.update(id, value): sets the given fields of the row with
\* that id; no row, no change.
UpdateTask(rows, id, value) ==
    { IF row.id = id THEN [row EXCEPT !.status = value.status, !.error = value.error]
      ELSE row : row \in rows }

AsyncTaskError(type, message) == [type |-> type, message |-> message]

\* Faulty variant: the thrown value's message is never looked at.
FallbackMessageGeneric(e) == "Failed to process async tasks"

\* e instanceof Error ? e.message : 'Failed to process async tasks'
FallbackMessage(e) == IF e.isError THEN e.message ELSE "Failed to process async tasks"

\* The task one fallback update is keyed by.
FallbackTarget(r, i) == generationsWithTasks(r)[i].asyncTaskId

FallbackUpdateOk(r, i) ==
    /\ pc[r] = "fallback"
    /\ i \in DOMAIN fallback[r]
    /\ fallback[r][i] = "pending"
    /\ asyncTasks' = UpdateTask(asyncTasks, FallbackTarget(r, i),
                        [status |-> Error,
                         error |-> AsyncTaskError(ServerError, FallbackMessage(thrown[r]))])
    /\ fallback' = [fallback EXCEPT ![r][i] = "ok"]
    /\ UNCHANGED <<pc, input, generationBatches, generations, tx, createdGenerations,
                   cb, thrown, calls, response,
                   clientVars>>

\* A fallback update fails: allSettled records it and nothing else happens.
FallbackUpdateFail(r, i) ==
    /\ pc[r] = "fallback"
    /\ i \in DOMAIN fallback[r]
    /\ fallback[r][i] = "pending"
    /\ fallback' = [fallback EXCEPT ![r][i] = "failed"]
    /\ UNCHANGED <<pc, input, generationBatches, generations, asyncTasks, tx,
                   createdGenerations, cb, thrown, calls, response,
                   clientVars>>

\* Faulty variant: Promise.all in place of allSettled, its rejection not caught.
FallbackResponseRethrows(r) ==
    IF \E i \in DOMAIN fallback[r] : fallback[r][i] = "failed"
    THEN [success |-> FALSE, rolledBack |-> 0]
    ELSE SuccessResponse(r)

\* What the handler returns after the fallback: allSettled never rejects.
FallbackResponse(r) == SuccessResponse(r)

FallbackReturn(r) ==
    /\ pc[r] = "fallback"
    /\ \A i \in DOMAIN fallback[r] : fallback[r][i] # "pending"
    /\ response' = [response EXCEPT ![r] = FallbackResponse(r)]
    /\ pc' = [pc EXCEPT ![r] = "done"]
    /\ UNCHANGED <<input, generationBatches, generations, asyncTasks, tx,
                   createdGenerations, cb, thrown, calls, fallback,
                   clientVars>>

\* ------------------------------------------------------ the remote side
\* The remote side marks the task of a call it received Success.
RemoteMarkSuccess(r, i) ==
    /\ i \in DOMAIN calls[r]
    /\ ~calls[r][i].remote
    /\ asyncTasks' = { IF row.id = calls[r][i].taskId THEN [row EXCEPT !.status = Success]
                       ELSE row : row \in asyncTasks }
    /\ calls' = [calls EXCEPT ![r][i].remote = TRUE]
    /\ UNCHANGED <<pc, input, generationBatches, generations, tx, createdGenerations,
                   cb, thrown, fallback, response,
                   clientVars>>

\* The call's promise resolves: the remote side has done its work.
CallResolve(r, i) ==
    /\ i \in DOMAIN calls[r]
    /\ calls[r][i].state = "inflight"
    /\ calls[r][i].remote
    /\ calls' = [calls EXCEPT ![r][i].state = "resolved"]
    /\ UNCHANGED <<pc, input, generationBatches, generations, asyncTasks, tx,
                   createdGenerations, cb, thrown, fallback, response,
                   clientVars>>

\* ------------------------------------------- the per-task catch handler
\* Faulty variant: no fallback string for a missing or empty message.
ErrorMessageRaw(e) == e.message

\* e.message || 'Unknown error'
ErrorMessage(e) == IF e.message \in {Undefined, ""} THEN "Unknown error" ELSE e.message

\* Faulty variant: every catch handler updates the first task of the batch.
CatchTargetFirst(r, i) == calls[r][1].taskId

\* The task the catch handler of call i updates: its own asyncTaskId.
CatchTarget(r, i) == calls[r][i].taskId

\* The call's promise rejects with e: the catch handler runs and issues the
\* status update, not awaited.
CallReject(r, i) ==
    /\ i \in DOMAIN calls[r]
    /\ calls[r][i].state = "inflight"
    /\ \E m \in Messages :
        calls' = [calls EXCEPT ![r][i].state = "rejected", ![r][i].e = [message |-> m]]
    /\ UNCHANGED <<pc, input, generationBatches, generations, asyncTasks, tx,
                   createdGenerations, cb, thrown, fallback, response,
                   clientVars>>

\* The status update of the catch handler succeeds.
CatchUpdateOk(r, i) ==
    /\ i \in DOMAIN calls[r]
    /\ calls[r][i].state = "rejected"
    /\ asyncTasks' = UpdateTask(asyncTasks, CatchTarget(r, i),
                        [status |-> Error,
                         error |-> AsyncTaskError(ServerError, ErrorMessage(calls[r][i].e))])
    /\ calls' = [calls EXCEPT ![r][i].state = "errorWritten"]
    /\ UNCHANGED <<pc, input, generationBatches, generations, tx, createdGenerations,
                   cb, thrown, fallback, response,
                   clientVars>>

\* Faulty variant: the handler of a failed update dispatches the task again.
CatchUpdateFailRedispatches(r, i) ==
    /\ i \in DOMAIN calls[r]
    /\ calls[r][i].state = "rejected"
    /\ calls' = [calls EXCEPT ![r] =
                    Append([@ EXCEPT ![i].state = "updateFailed"],
                           [calls[r][i] EXCEPT !.state = "inflight", !.e = NoRejection])]
    /\ UNCHANGED <<pc, input, generationBatches, generations, asyncTasks, tx,
                   createdGenerations, cb, thrown, fallback, response,
                   clientVars>>

\* The status update fails: its own catch logs it, and that is all.
CatchUpdateFail(r, i) ==
    /\ i \in DOMAIN calls[r]
    /\ calls[r][i].state = "rejected"
    /\ calls' = [calls EXCEPT ![r][i].state = "updateFailed"]
    /\ UNCHANGED <<pc, input, generationBatches, generations, asyncTasks, tx,
                   createdGenerations, cb, thrown, fallback, response,
                   clientVars>>

\* Every step of the handler of request r and of what it set in motion.
Handler(r) ==
    \/ TxInsertBatch(r)
    \/ TxInsertGenerations(r)
    \/ \E i \in 1..MaxImageNum : TxInsertTask(r, i)
    \/ \E i \in 1..MaxImageNum : TxUpdateGeneration(r, i)
    \/ TxCommit(r)
    \/ TxFail(r)
    \/ DispatchAndReturn(r)
    \/ CreateAsyncCallerThrows(r)
    \/ \E i \in 1..MaxImageNum : FallbackUpdateOk(r, i)
    \/ \E i \in 1..MaxImageNum : FallbackUpdateFail(r, i)
    \/ FallbackReturn(r)
    \/ \E i \in 1..MaxImageNum : RemoteMarkSuccess(r, i)
    \/ \E i \in 1..MaxImageNum : CallResolve(r, i)
    \/ \E i \in 1..MaxImageNum : CallReject(r, i)
    \/ \E i \in 1..MaxImageNum : CatchUpdateOk(r, i)
    \/ \E i \in 1..MaxImageNum : CatchUpdateFail(r, i)

\* Concurrent requests whose params have no seed field.
Next == \E r \in Reqs : Receive(r, {FALSE}, {PlainParams}) \/ Handler(r)

Spec == Init /\ [][Next]_vars

\* One request, with or without a seed field in its params.
NextSeeds == Receive(1, BOOLEAN, {PlainParams}) \/ Handler(1)

SpecSeeds == Init /\ [][NextSeeds]_vars

\* One request, with or without a prompt and image URLs in its params.
NextParams ==
    \/ Receive(1, {FALSE}, ParamsWithUrls)
    \/ RejectInput(1, ParamsWithUrls)
    \/ Handler(1)

SpecParams == Init /\ [][NextParams]_vars

\* One request whose caller may also throw synchronously when a call is
\* issued, part-way through the forEach.
NextLoopThrow ==
    \/ Receive(1, {FALSE}, {PlainParams})
    \/ Handler(1)
    \/ \E k \in 1..MaxImageNum : DispatchThrows(1, k)

SpecLoopThrow == Init /\ [][NextLoopThrow]_vars

\* =========================================================== the client
\* The image store's createImage and recreateImage actions. Every set() of
\* the store is a step of its own: subscribers see the store in between.
Providers == {"fal", "openai"}

ModelOf(provider) == IF provider = "fal" THEN "flux" ELSE "gpt-image"

\* parameters of the generation config: not initialized, or with a prompt
\* that may be empty.
Uninitialized == [initialized |-> FALSE]

Parameters ==
    {Uninitialized} \cup { [initialized |-> TRUE, prompt |-> p] : p \in {"", "a cat"} }

\* What the selectors read off the store when an action starts.
Configs ==
    { [imageNum |-> n, parameters |-> q, provider |-> v, model |-> ModelOf(v)] :
        n \in 1..MaxImageNum, q \in Parameters, v \in Providers }

\* createTempBatch: a batch with a temp- id made from the clock, and imageNum
\* generations with temp- ids, no asset, no task id, and a Pending task.
createTempBatch(provider, model, prompt, config, imageNum, now) ==
    [id |-> [temp |-> TRUE, n |-> now],
     provider |-> provider, model |-> model, prompt |-> prompt, config |-> config,
     generations |->
        [i \in 1..imageNum |->
            [id |-> [temp |-> TRUE, n |-> now, i |-> i], asyncTaskId |-> Null,
             task |-> [id |-> [temp |-> TRUE, n |-> now, i |-> i], status |-> Pending]]]]

\* The batch the server creates for a request: ids of its own, one Pending
\* task per generation.
ServerBatch(req, now) ==
    [id |-> [temp |-> FALSE, n |-> now],
     provider |-> req.provider, model |-> req.model, prompt |-> req.params.prompt,
     config |-> req.params,
     generations |->
        [i \in 1..req.imageNum |->
            [id |-> [temp |-> FALSE, n |-> now, i |-> i],
             asyncTaskId |-> [temp |-> FALSE, n |-> now, i |-> i],
             task |-> [id |-> [temp |-> FALSE, n |-> now, i |-> i], status |-> Pending]]]]

\* A sequence without the elements whose id is the given one.
RECURSIVE Without(_, _)
Without(batches, id) ==
    IF batches = <<>> THEN <<>>
    ELSE IF Head(batches).id = id THEN Without(Tail(batches), id)
    ELSE <<Head(batches)>> \o Without(Tail(batches), id)

\* The promise of the running action settles: it resolves, or it rejects
\* with what was thrown.
Settle(result) ==
    /\ cpc' = "idle"
    /\ frame' = NoFrame
    /\ outcome' = [settled |-> TRUE, kind |-> frame.kind, result |-> result,
                   generationTopicId |-> frame.generationTopicId, now |-> frame.now]

\* The next statement of the running action.
Advance ==
    /\ frame' = [frame EXCEPT !.todo = Tail(@)]
    /\ cpc' = Head(Tail(frame.todo))

\* createImage throws before its first await: parameters is not initialized,
\* or the prompt is empty. isCreating was set just before.
CreateImageThrows ==
    /\ cpc = "idle"
    /\ invocations < MaxInvocations
    /\ \E c \in Configs :
        /\ IF c.parameters = Uninitialized THEN TRUE ELSE c.parameters.prompt = ""
        /\ outcome' = [settled |-> TRUE, kind |-> "createImage",
                       result |-> IF c.parameters = Uninitialized
                                  THEN "parameters is not initialized"
                                  ELSE "prompt is empty",
                       generationTopicId |-> activeGenerationTopicId,
                       now |-> invocations + 1]
    /\ isCreating' = TRUE
    /\ invocations' = invocations + 1
    /\ UNCHANGED <<activeGenerationTopicId, generationBatchesMap, stored, cpc, frame,
                   request, serverVars>>

\* Faulty variant: the topic is switched to as soon as it exists.
StepsOfNewTopicSwitchFirst == <<"switch", "addOptimistic", "send">>

\* The statements of createImage after it created a topic, in program order.
StepsOfNewTopic == <<"addOptimistic", "switch", "send">>

\* The statements of createImage with an active topic.
StepsOfActiveTopic == <<"addOptimistic", "send">>

\* The statements of recreateImage.
StepsOfRecreate == <<"remove", "addOptimistic", "send">>

\* createImage with a prompt: isCreating is set; without an active topic the
\* action awaits createGenerationTopic, with one it goes on to the temp batch.
CreateImageBegin ==
    /\ cpc = "idle"
    /\ invocations < MaxInvocations
    /\ \E c \in Configs :
        /\ c.parameters # Uninitialized
        /\ IF c.parameters = Uninitialized THEN FALSE ELSE c.parameters.prompt # ""
        /\ frame' = [kind |-> "createImage", now |-> invocations + 1,
                     imageNum |-> c.imageNum,
                     provider |-> c.provider, model |-> c.model,
                     prompt |-> c.parameters.prompt, config |-> c.parameters,
                     params |-> c.parameters,
                     generationTopicId |-> activeGenerationTopicId,
                     todo |-> IF activeGenerationTopicId = Null
                              THEN StepsOfNewTopic ELSE StepsOfActiveTopic]
    /\ isCreating' = TRUE
    /\ invocations' = invocations + 1
    /\ cpc' = IF activeGenerationTopicId = Null THEN "createTopic" ELSE "addOptimistic"
    /\ UNCHANGED <<activeGenerationTopicId, generationBatchesMap, stored, request,
                   outcome, serverVars>>

\* createGenerationTopic resolves with the id of a new topic.
CreateTopicResolves ==
    /\ cpc = "createTopic"
    /\ frame' = [frame EXCEPT !.generationTopicId = frame.now]
    /\ cpc' = Head(frame.todo)
    /\ UNCHANGED <<isCreating, activeGenerationTopicId, generationBatchesMap, stored,
                   request, outcome, invocations, serverVars>>

\* createGenerationTopic rejects: the await throws out of the action.
CreateTopicRejects ==
    /\ cpc = "createTopic"
    /\ Settle("createGenerationTopic rejected")
    /\ UNCHANGED <<isCreating, activeGenerationTopicId, generationBatchesMap, stored,
                   request, invocations, serverVars>>

\* addOptimisticGenerationBatch(topic, tempBatch): the temp batch joins the
\* topic's batches in the store.
AddOptimistic ==
    /\ cpc = "addOptimistic"
    /\ generationBatchesMap' =
          [generationBatchesMap EXCEPT ![frame.generationTopicId] =
              Append(@, createTempBatch(frame.provider, frame.model, frame.prompt,
                                        frame.config, frame.imageNum, frame.now))]
    /\ Advance
    /\ UNCHANGED <<isCreating, activeGenerationTopicId, stored, request, outcome,
                   invocations, serverVars>>

\* switchGenerationTopic(generationTopicId).
SwitchTopic ==
    /\ cpc = "switch"
    /\ activeGenerationTopicId' = frame.generationTopicId
    /\ Advance
    /\ UNCHANGED <<isCreating, generationBatchesMap, stored, request, outcome,
                   invocations, serverVars>>

\* imageService.createImage({generationTopicId, provider, model, imageNum, params})
SendRequest ==
    /\ cpc = "send"
    /\ request' = [sent |-> TRUE, state |-> "pending",
                   generationTopicId |-> frame.generationTopicId,
                   provider |-> frame.provider, model |-> frame.model,
                   imageNum |-> frame.imageNum, params |-> frame.params]
    /\ frame' = [frame EXCEPT !.todo = <<>>]
    /\ cpc' = "requesting"
    /\ UNCHANGED <<isCreating, activeGenerationTopicId, generationBatchesMap, stored,
                   outcome, invocations, serverVars>>

\* The request resolves: the server has created the batch; the action calls
\* refreshGenerationBatches.
RequestResolves ==
    /\ cpc = "requesting"
    /\ stored' = [stored EXCEPT ![request.generationTopicId] =
                     Append(@, ServerBatch(request, frame.now))]
    /\ request' = [request EXCEPT !.state = "resolved"]
    /\ cpc' = "refreshing"
    /\ UNCHANGED <<isCreating, activeGenerationTopicId, generationBatchesMap, frame,
                   outcome, invocations, serverVars>>

\* The request rejects: the finally block resets isCreating and the action
\* throws.
RequestRejects ==
    /\ cpc = "requesting"
    /\ request' = [request EXCEPT !.state = "rejected"]
    /\ isCreating' = FALSE
    /\ Settle("request rejected")
    /\ UNCHANGED <<activeGenerationTopicId, generationBatchesMap, stored, invocations,
                   serverVars>>

\* refreshGenerationBatches resolves: the batches of the active topic are
\* replaced by what the server holds; then the finally block.
RefreshResolves ==
    /\ cpc = "refreshing"
    /\ generationBatchesMap' =
          [generationBatchesMap EXCEPT ![activeGenerationTopicId] =
              stored[activeGenerationTopicId]]
    /\ isCreating' = FALSE
    /\ Settle("resolved")
    /\ UNCHANGED <<activeGenerationTopicId, stored, request, invocations, serverVars>>

\* refreshGenerationBatches rejects: the store keeps what it had.
RefreshRejects ==
    /\ cpc = "refreshing"
    /\ isCreating' = FALSE
    /\ Settle("refresh rejected")
    /\ UNCHANGED <<activeGenerationTopicId, generationBatchesMap, stored, request,
                   invocations, serverVars>>

\* The batches of the store recreateImage may be called with.
Recreatable ==
    UNION { { generationBatchesMap[t][i] : i \in DOMAIN generationBatchesMap[t] } :
            t \in Topics }

\* recreateImage without an active topic throws before its first await.
RecreateImageThrows ==
    /\ cpc = "idle"
    /\ invocations < MaxInvocations
    /\ activeGenerationTopicId = Null
    /\ outcome' = [settled |-> TRUE, kind |-> "recreateImage",
                   result |-> "No active generation topic",
                   generationTopicId |-> activeGenerationTopicId, now |-> invocations + 1]
    /\ isCreating' = TRUE
    /\ invocations' = invocations + 1
    /\ UNCHANGED <<activeGenerationTopicId, generationBatchesMap, stored, cpc, frame,
                   request, serverVars>>

\* Faulty variant: the request is made from the current generation config.
RecreateArgsFromConfig(batch, c) ==
    [provider |-> c.provider, model |-> c.model, prompt |-> batch.prompt,
     config |-> batch.config, params |-> batch.config]

\* What recreateImage builds the temp batch and the request from: the old
\* batch's provider, model, prompt and config.
RecreateArgs(batch, c) ==
    [provider |-> batch.provider, model |-> batch.model, prompt |-> batch.prompt,
     config |-> batch.config, params |-> batch.config]

\* recreateImage(generationBatchId) with an active topic: isCreating is set
\* and the action awaits removeGenerationBatch.
RecreateImageBegin ==
    /\ cpc = "idle"
    /\ invocations < MaxInvocations
    /\ activeGenerationTopicId # Null
    /\ \E c \in Configs, batch \in Recreatable :
        /\ ~batch.id.temp
        /\ LET args == RecreateArgs(batch, c) IN
           frame' = [kind |-> "recreateImage", now |-> invocations + 1,
                     imageNum |-> c.imageNum,
                     provider |-> args.provider, model |-> args.model,
                     prompt |-> args.prompt, config |-> args.config,
                     params |-> args.params,
                     generationTopicId |-> activeGenerationTopicId,
                     todo |-> StepsOfRecreate, batch |-> batch]
    /\ isCreating' = TRUE
    /\ invocations' = invocations + 1
    /\ cpc' = Head(StepsOfRecreate)
    /\ UNCHANGED <<activeGenerationTopicId, generationBatchesMap, stored, request,
                   outcome, serverVars>>

\* removeGenerationBatch resolves: the batch is gone from the server and from
\* the store.
RemoveResolves ==
    /\ cpc = "remove"
    /\ stored' = [stored EXCEPT ![frame.generationTopicId] = Without(@, frame.batch.id)]
    /\ generationBatchesMap' =
          [generationBatchesMap EXCEPT ![frame.generationTopicId] =
              Without(@, frame.batch.id)]
    /\ Advance
    /\ UNCHANGED <<isCreating, activeGenerationTopicId, request, outcome,
                   invocations, serverVars>>

\* removeGenerationBatch rejects: the await throws out of the action.
RemoveRejects ==
    /\ cpc = "remove"
    /\ Settle("removeGenerationBatch rejected")
    /\ UNCHANGED <<isCreating, activeGenerationTopicId, generationBatchesMap, stored,
                   request, invocations, serverVars>>

NextClient ==
    \/ CreateImageThrows
    \/ CreateImageBegin
    \/ CreateTopicResolves
    \/ CreateTopicRejects
    \/ AddOptimistic
    \/ SwitchTopic
    \/ SendRequest
    \/ RequestResolves
    \/ RequestRejects
    \/ RefreshResolves
    \/ RefreshRejects
    \/ RecreateImageThrows
    \/ RecreateImageBegin
    \/ RemoveResolves
    \/ RemoveRejects

SpecClient == Init /\ [][NextClient]_vars

\* ================================================================ claims
RowsOf(rows, r) == { row \in rows : row.req = r }

\* The transaction of request r has committed.
Committed(r) == pc[r] \in {"createCaller", "fallback", "done"}

\* C1: once the transaction of a request with imageNum = N has committed, the
\* store holds exactly one batch of that request, exactly N generations of it
\* that all reference that batch, exactly N tasks of it (all Pending right
\* after the commit), and the N generations reference N pairwise distinct
\* tasks of the request.
C1_CommittedRows ==
    \A r \in Reqs :
        Committed(r) =>
            LET bs == RowsOf(generationBatches, r)
                gs == RowsOf(generations, r)
                ts == RowsOf(asyncTasks, r)
            IN /\ Cardinality(bs) = 1
               /\ Cardinality(gs) = input[r].imageNum
               /\ Cardinality(ts) = input[r].imageNum
               /\ \A g \in gs : g.generationBatchId \in Ids(bs)
               /\ \A g \in gs : g.asyncTaskId \in Ids(ts)
               /\ \A g, h \in gs : g # h => g.asyncTaskId # h.asyncTaskId
               /\ pc[r] = "createCaller" => \A t \in ts : t.status = Pending

C1_Witness ==
    \E r \in Reqs :
        /\ pc[r] = "createCaller"
        /\ input[r].imageNum >= 2
        /\ Cardinality(RowsOf(asyncTasks, r)) = input[r].imageNum

\* C2: when a statement of the transaction fails, no batch, generation or
\* task row of the request is visible, no remote call of the request is
\* issued, and the caller gets a failure.
C2_RollbackLeavesNothing ==
    \A r \in Reqs :
        pc[r] = "failed" =>
            /\ RowsOf(generationBatches, r) = {}
            /\ RowsOf(generations, r) = {}
            /\ RowsOf(asyncTasks, r) = {}
            /\ calls[r] = <<>>
            /\ response[r].success = FALSE

\* A failure after the batch, both generations and at least one task were written.
C2_Witness ==
    \E r \in Reqs :
        /\ pc[r] = "failed"
        /\ response[r].rolledBack >= 4

\* C3: every visible generation row has a non-null asyncTaskId, and it is the
\* id of a visible task row.
C3_VisibleGenerationHasTask ==
    \A g \in generations :
        /\ g.asyncTaskId # Null
        /\ g.asyncTaskId \in Ids(asyncTasks)

\* Generations are visible while another transaction holds a generation whose
\* task reference is not written yet.
C3_Witness ==
    /\ generations # {}
    /\ \E q \in Reqs : \E g \in tx[q].generations : g.asyncTaskId = Null

Task(id) == CHOOSE t \in asyncTasks : t.id = id

\* C4: once a task's status is Success or Error it never changes again.
C4_TerminalStatusStays ==
    [][\A t \in asyncTasks :
          t.status \in {Success, Error} =>
              \E u \in asyncTasks' : u.id = t.id /\ u.status = t.status]_vars

\* The message the task of a rejected call is to carry.
RecordedMessage(m) == IF m = Undefined \/ m = "" THEN "Unknown error" ELSE m

\* C5 as stated: every task whose remote call rejected, its catch handler
\* having finished, is Error with kind ServerError and the rejection's
\* message, or 'Unknown error' for a missing or empty one.
C5_RejectedTaskIsError ==
    \A r \in Reqs : \A i \in DOMAIN calls[r] :
        calls[r][i].state \in {"errorWritten", "updateFailed"} =>
            /\ Task(calls[r][i].taskId).status = Error
            /\ Task(calls[r][i].taskId).error =
                   [type |-> ServerError, message |-> RecordedMessage(calls[r][i].e.message)]

\* C5 amended: the status update issued for a rejected call, when it
\* succeeds, leaves the task Error with kind ServerError and the rejection's
\* message ('Unknown error' for a missing or empty one); when it fails, the
\* task row is left as it was.
C5_RejectionUpdate ==
    [][\A r \in Reqs : \A i \in DOMAIN calls[r] :
          calls[r][i].state = "rejected" =>
              /\ calls'[r][i].state = "errorWritten" =>
                    \E u \in asyncTasks' :
                        /\ u.id = calls[r][i].taskId
                        /\ u.status = Error
                        /\ u.error = [type |-> ServerError,
                                      message |-> RecordedMessage(calls[r][i].e.message)]
              /\ calls'[r][i].state = "updateFailed" =>
                    Task(calls[r][i].taskId) \in asyncTasks']_vars

\* A rejection with an empty message was recorded as 'Unknown error'.
C5_Witness ==
    \E r \in Reqs : \E i \in DOMAIN calls[r] :
        /\ calls[r][i].state = "errorWritten"
        /\ calls[r][i].e.message = ""
        /\ Task(calls[r][i].taskId).error = [type |-> ServerError, message |-> "Unknown error"]

\* The message the fallback is to record for a thrown value.
ThrownMessage(e) == IF e.isError THEN e.message ELSE "Failed to process async tasks"

FallbackError(r) == [type |-> ServerError, message |-> ThrownMessage(thrown[r])]

\* C6 as stated: when createAsyncCaller threw, all N tasks of the batch end
\* Error with the thrown value's message, none left Pending.
C6_AllTasksError ==
    \A r \in Reqs :
        (pc[r] = "done" /\ thrown[r] # NotThrown) =>
            \A t \in RowsOf(asyncTasks, r) : t.status = Error /\ t.error = FallbackError(r)

\* C6 amended: when createAsyncCaller threw, no remote call is issued, one
\* update per task is attempted, every task whose update succeeded is Error
\* with kind ServerError and the thrown value's message ('Failed to process
\* async tasks' when it is not an Error), and a task is left Pending exactly
\* when its own update failed.
C6_FallbackMarksTasks ==
    \A r \in Reqs :
        thrown[r] # NotThrown =>
            /\ calls[r] = <<>>
            /\ DOMAIN fallback[r] = 1..input[r].imageNum
            /\ pc[r] = "done" => \A i \in DOMAIN fallback[r] : fallback[r][i] # "pending"
            /\ \A i \in DOMAIN fallback[r] :
                  LET t == Task(generationsWithTasks(r)[i].asyncTaskId)
                  IN /\ t.req = r
                     /\ fallback[r][i] = "ok" => t.status = Error /\ t.error = FallbackError(r)
                     /\ fallback[r][i] # "ok" => t.status = Pending /\ t.error = NoError

\* The handler returned after a fallback in which one update succeeded and
\* one failed, the thrown value not being an Error.
C6_Witness ==
    \E r \in Reqs :
        /\ pc[r] = "done"
        /\ thrown[r] # NotThrown
        /\ ~thrown[r].isError
        /\ \E i, j \in DOMAIN fallback[r] : fallback[r][i] = "ok" /\ fallback[r][j] = "failed"

\* What the handler is to return: the created batch and its N generations.
ReturnsBatch(r) ==
    /\ response[r].success = TRUE
    /\ response[r].data.batch \in RowsOf(generationBatches, r)
    /\ Len(response[r].data.generations) = input[r].imageNum
    /\ \A i \in 1..input[r].imageNum :
          response[r].data.generations[i].id \in Ids(RowsOf(generations, r))

\* After the commit the handler is never stuck before its return, and what
\* it returned is the success response.
C7_Returned ==
    \A r \in Reqs :
        Committed(r) =>
            /\ pc[r] = "done" => ReturnsBatch(r)
            /\ pc[r] # "done" =>
                  /\ response[r] = NoResponse
                  /\ ENABLED (DispatchAndReturn(r) \/ FallbackReturn(r)
                              \/ \E i \in 1..MaxImageNum : FallbackUpdateOk(r, i))

\* The step in which the handler returns: it returns success, and every
\* remote call of the request is still in flight in that very step.
C7_ReturnStep ==
    \A r \in Reqs :
        (Committed(r) /\ response[r] = NoResponse /\ response'[r] # NoResponse) =>
            /\ response'[r].success = TRUE
            /\ \A i \in DOMAIN calls'[r] : calls'[r][i].state = "inflight"

\* C7: once the transaction has committed the handler returns {success:
\* true, data: {batch, generations}} and nothing else: no step after the
\* commit waits for a remote call (all of them are in flight when it returns)
\* and no failure of the dispatch setup, of a remote call or of a status
\* update makes the response a failure.
C7_SuccessAfterCommit == []C7_Returned /\ [][C7_ReturnStep]_vars

\* The handler has returned success while both tasks are Pending and both
\* remote calls in flight.
C7_Witness ==
    \E r \in Reqs :
        /\ pc[r] = "done"
        /\ response[r].success = TRUE
        /\ Len(calls[r]) >= 2
        /\ \A i \in DOMAIN calls[r] : calls[r][i].state = "inflight"
        /\ \A t \in RowsOf(asyncTasks, r) : t.status = Pending

\* The rows of request r are all visible: its batch, N generations, N tasks.
AllRowsVisible(r) ==
    /\ Cardinality(RowsOf(generationBatches, r)) = 1
    /\ Cardinality(RowsOf(generations, r)) = input[r].imageNum
    /\ Cardinality(RowsOf(asyncTasks, r)) = input[r].imageNum

\* C8: in the state in which the remote calls of a request are issued, the
\* batch row, all N generation rows and all N task rows of the request are
\* visible, and each call names a visible task and a visible generation.
C8_DispatchAfterCommit ==
    [][\A r \in Reqs :
          (calls[r] = <<>> /\ calls'[r] # <<>>) =>
              /\ AllRowsVisible(r)
              /\ \A i \in DOMAIN calls'[r] :
                    /\ calls'[r][i].taskId \in Ids(RowsOf(asyncTasks, r))
                    /\ calls'[r][i].generationId \in Ids(RowsOf(generations, r))]_vars

\* The calls of one request are issued while another request's transaction
\* is open, its rows not yet visible.
C8_Witness ==
    \E r, q \in Reqs :
        /\ Len(calls[r]) >= 1
        /\ q # r
        /\ tx[q].generations # {}

\* A step of the failure path of call (r, i): its rejection, or its status
\* update succeeding or failing.
FailureStep(r, i) ==
    /\ i \in DOMAIN calls[r]
    /\ \/ calls[r][i].state = "inflight" /\ calls'[r][i].state = "rejected"
       \/ calls[r][i].state = "rejected" /\ calls'[r][i].state \in {"errorWritten", "updateFailed"}

C9_Frame ==
    \A r \in Reqs : \A i \in 1..MaxImageNum :
        FailureStep(r, i) =>
            /\ generationBatches' = generationBatches
            /\ generations' = generations
            /\ \A t \in asyncTasks : t.id # calls[r][i].taskId => t \in asyncTasks'
            /\ \A q \in Reqs : \A j \in DOMAIN calls[q] :
                  <<q, j>> # <<r, i>> => calls'[q][j] = calls[q][j]

\* Whenever calls of a request are issued, all N of them are, one per pair.
C9_AllIssued ==
    \A r \in Reqs :
        calls[r] # <<>> =>
            /\ Len(calls[r]) = input[r].imageNum
            /\ \A i \in DOMAIN calls[r] :
                  /\ calls[r][i].generationId = createdGenerations[r][i].id
                  /\ \E g \in generations :
                        g.id = calls[r][i].generationId /\ g.asyncTaskId = calls[r][i].taskId

GenerationsOf(r) == RowsOf(generations, r) \cup tx[r].generations

\* C10: when params has a seed field the generations of the request have
\* pairwise distinct, non-null seeds; when it has none, every generation of
\* the request has a null seed.
C10_Seeds ==
    \A r \in Reqs :
        /\ input[r].hasSeed =>
              /\ \A g \in GenerationsOf(r) : g.seed # Null
              /\ \A g, h \in GenerationsOf(r) : g # h => g.seed # h.seed
              /\ \A i \in DOMAIN createdGenerations[r] :
                    \A j \in DOMAIN createdGenerations[r] :
                        i # j => createdGenerations[r][i].seed # createdGenerations[r][j].seed
        /\ ~input[r].hasSeed => \A g \in GenerationsOf(r) : g.seed = Null

\* A committed request with a seed field and two generations.
C10_Witness ==
    \E r \in Reqs :
        /\ input[r].hasSeed
        /\ Committed(r)
        /\ Cardinality(RowsOf(generations, r)) >= 2

\* The batch row of request r, inside its transaction or committed.
BatchOf(r) == CHOOSE b \in generationBatches \cup tx[r].generationBatches : b.req = r

HasBatch(r) == \E b \in generationBatches \cup tx[r].generationBatches : b.req = r

\* The request came with a non-empty imageUrls list.
SentUrls(r) == input[r].params.hasImageUrls /\ input[r].params.imageUrls # <<>>

EveryUrlResolves(r) ==
    \A i \in DOMAIN input[r].params.imageUrls :
        getKeyFromFullUrl(input[r].params.imageUrls[i]) # Throws

\* C11: the URL-to-key rewrite is all-or-nothing and never fatal. When the
\* resolver succeeds for every URL of a non-empty params.imageUrls, the batch
\* row's config holds the resolved keys in the order of the URLs; when the
\* resolver throws for any URL, the config holds the original imageUrls
\* unchanged, no key among them, and the request still enters the
\* transaction, and once it has committed and the handler has returned the
\* response is the success response and (the caller having been constructed)
\* every task's call was issued.
C11_RewriteAllOrNothing ==
    \A r \in Reqs :
        (SentUrls(r) /\ input[r].params.prompt # Undefined /\ pc[r] # "idle") =>
            LET urls == input[r].params.imageUrls IN
            /\ pc[r] # "rejected"
            /\ (HasBatch(r) /\ EveryUrlResolves(r)) =>
                  /\ Len(BatchOf(r).config.imageUrls) = Len(urls)
                  /\ \A i \in DOMAIN urls :
                        BatchOf(r).config.imageUrls[i] = getKeyFromFullUrl(urls[i])
            /\ (HasBatch(r) /\ ~EveryUrlResolves(r)) =>
                  /\ BatchOf(r).config.imageUrls = urls
                  /\ BatchOf(r).config = input[r].params
            /\ (~EveryUrlResolves(r) /\ pc[r] = "done") =>
                  /\ response[r].success
                  /\ RowsOf(generationBatches, r) # {}
                  /\ thrown[r] = NotThrown => Len(calls[r]) = input[r].imageNum

\* A request whose second URL the resolver throws on (the first resolves) has
\* committed, dispatched and returned success, its config holding both URLs.
C11_Witness ==
    /\ pc[1] = "done"
    /\ input[1].params.imageUrls = <<"https://cdn/files/a.png", "blob:c">>
    /\ response[1].success
    /\ calls[1] # <<>>
    /\ \E b \in generationBatches :
          b.req = 1 /\ b.config.imageUrls = <<"https://cdn/files/a.png", "blob:c">>

\* The (generation, task) pairs the transaction of request r committed.
Pairs(r) == { <<g.id, g.asyncTaskId>> : g \in RowsOf(generations, r) }

\* The pairs the issued calls of request r carry.
CalledPairs(r) == { <<calls[r][i].generationId, calls[r][i].taskId>> : i \in DOMAIN calls[r] }

C12_Pairs ==
    \A r \in Reqs :
        /\ (pc[r] = "done" /\ thrown[r] = NotThrown) => calls[r] # <<>>
        /\ calls[r] # <<>> =>
              /\ Committed(r)
              /\ CalledPairs(r) = Pairs(r)
              /\ Len(calls[r]) = Cardinality(Pairs(r))
              /\ Len(calls[r]) = input[r].imageNum
              /\ \A i, j \in DOMAIN calls[r] :
                    i # j => calls[r][i].taskId # calls[r][j].taskId

C12_NoRedispatch ==
    \A r \in Reqs :
        calls[r] # <<>> =>
            /\ Len(calls'[r]) = Len(calls[r])
            /\ \A i \in DOMAIN calls[r] :
                  /\ calls'[r][i].taskId = calls[r][i].taskId
                  /\ calls'[r][i].generationId = calls[r][i].generationId

C13_CallParamsOriginal ==
    \A r \in Reqs : \A i \in DOMAIN calls[r] :
        /\ calls[r][i].params = input[r].params
        /\ calls[r][i].params.imageUrls = input[r].params.imageUrls
        /\ \A k \in DOMAIN calls[r][i].params.imageUrls :
              calls[r][i].params.imageUrls[k] \in Urls

\* Two calls carry the two URLs while the committed batch's config holds
\* their keys.
C13_Witness ==
    /\ Len(calls[1]) = 2
    /\ \A i \in 1..2 :
          calls[1][i].params.imageUrls = <<"https://cdn/files/b.png", "https://cdn/files/a.png">>
    /\ \E b \in generationBatches :
          b.req = 1 /\ b.config.imageUrls = <<"files/b.png", "files/a.png">>

\* C14: a request whose params have no prompt is rejected before any write:
\* no batch, generation or task row of it exists, inside a transaction or
\* committed, no remote call and no fallback update was issued for it, and
\* the caller was given an error.
C14_NoPromptRejected ==
    \A r \in Reqs :
        (input[r].params.prompt = Undefined /\ pc[r] # "idle") =>
            /\ pc[r] = "rejected"
            /\ RowsOf(generationBatches \cup tx[r].generationBatches, r) = {}
            /\ RowsOf(generations \cup tx[r].generations, r) = {}
            /\ RowsOf(asyncTasks \cup tx[r].asyncTasks, r) = {}
            /\ createdGenerations[r] = <<>>
            /\ calls[r] = <<>>
            /\ fallback[r] = <<>>
            /\ response[r] # NoResponse
            /\ ~response[r].success

\* A request with image URLs and no prompt was turned away.
C14_Witness ==
    /\ pc[1] = "rejected"
    /\ input[1].params.prompt = Undefined
    /\ input[1].params.imageUrls # <<>>
    /\ ~response[1].success
    /\ generationBatches = {}

\* The status update of call i of request r has failed and was logged.
UpdateFailed(r, i) == i \in DOMAIN calls[r] /\ calls[r][i].state = "updateFailed"

\* C15 as stated: once the status write after a rejected call has failed, the
\* task is Pending, and stays so.
C15_StaysPending ==
    \A r \in Reqs : \A i \in 1..MaxImageNum :
        UpdateFailed(r, i) => Task(calls[r][i].taskId).status = Pending

\* The step in which the status update fails touches nothing but the call's
\* own record: no row, no response, no other call, no fallback.
C15_FailingStep ==
    \A r \in Reqs : \A i \in 1..MaxImageNum :
        (i \in DOMAIN calls[r] /\ calls[r][i].state = "rejected"
            /\ calls'[r][i].state = "updateFailed") =>
            /\ asyncTasks' = asyncTasks
            /\ generations' = generations
            /\ generationBatches' = generationBatches
            /\ response' = response
            /\ pc' = pc
            /\ thrown' = thrown
            /\ fallback' = fallback
            /\ Len(calls'[r]) = Len(calls[r])
            /\ \A q \in Reqs : \A j \in DOMAIN calls[q] :
                  <<q, j>> # <<r, i>> => calls'[q][j] = calls[q][j]

\* From then on: the call's record stays as it is but for the remote side's
\* mark, no further call is issued for the request, and the task's row
\* changes only when the remote side writes its own status: the error
\* column is never written, and the status moves only to Success, in the
\* step in which the remote side marks the call.
C15_Afterwards ==
    \A r \in Reqs : \A i \in 1..MaxImageNum :
        UpdateFailed(r, i) =>
            /\ Len(calls'[r]) = Len(calls[r])
            /\ calls'[r][i].state = "updateFailed"
            /\ calls'[r][i].taskId = calls[r][i].taskId
            /\ \A t \in asyncTasks : \A u \in asyncTasks' :
                  (t.id = calls[r][i].taskId /\ u.id = t.id) =>
                      /\ u.error = t.error
                      /\ u.status # t.status =>
                            /\ u.status = Success
                            /\ ~calls[r][i].remote
                            /\ calls'[r][i].remote

\* C15 (amended): when the Error status write that follows a rejected call
\* fails, the failure is only logged: that step changes no row, no response
\* and no other call; afterwards no second status write and no second remote
\* call is made for the task, whose row keeps the status it had unless the
\* remote side writes its own.
C15_UpdateFailureOnlyLogged == [][C15_FailingStep /\ C15_Afterwards]_vars

\* The status write of the first call has failed and its task is still
\* Pending after the handler returned success; the second call has resolved.
C15_Witness ==
    /\ Len(calls[1]) = 2
    /\ UpdateFailed(1, 1)
    /\ Task(calls[1][1].taskId).status = Pending
    /\ calls[1][2].state = "resolved"
    /\ pc[1] = "done"
    /\ response[1].success

\* The batches the store holds for a topic.
BatchesOf(t) == { generationBatchesMap[t][i] : i \in DOMAIN generationBatchesMap[t] }

\* b is a temporary batch made at time now with n generations: fabricated
\* ids throughout, no task id, every generation's task Pending.
IsTempBatch(b, now, n) ==
    /\ b.id = [temp |-> TRUE, n |-> now]
    /\ Len(b.generations) = n
    /\ \A i \in DOMAIN b.generations :
          /\ b.generations[i].id.temp
          /\ b.generations[i].asyncTaskId = Null
          /\ b.generations[i].task.id.temp
          /\ b.generations[i].task.status = Pending

\* The running action sends its request in this step.
SendsRequest == cpc # "requesting" /\ cpc' = "requesting"

C16_Order ==
    /\ (SendsRequest /\ frame.kind = "createImage") =>
          /\ request'.state = "pending"
          /\ request'.imageNum = frame.imageNum
          /\ \E b \in BatchesOf(request'.generationTopicId) :
                IsTempBatch(b, frame.now, request'.imageNum)
    /\ (cpc # "refreshing" /\ cpc' = "refreshing") =>
          /\ cpc = "requesting"
          /\ request.state = "pending"
          /\ request'.state = "resolved"
    /\ (cpc = "requesting" /\ request'.state = "rejected") => cpc' = "idle"
    /\ (activeGenerationTopicId' # activeGenerationTopicId) =>
          /\ frame.kind = "createImage"
          /\ activeGenerationTopicId = Null
          /\ cpc' # "requesting"
          /\ \E b \in BatchesOf(activeGenerationTopicId') :
                IsTempBatch(b, frame.now, frame.imageNum)

\* C16: in createImage the temporary batch, with fabricated ids and exactly
\* imageNum generations, all Pending, is in the store before the request is
\* sent; the refresh starts only in the step in which the request returns
\* successfully, never after a rejection; and for a topic createImage has
\* just created, the temporary batch is in the store under that topic before
\* the store switches to it.
C16_OptimisticFirst == [][C16_Order]_vars

\* createImage created topic 1, added a temporary batch of two generations,
\* switched to the topic and sent the request, which has returned; the
\* refresh is running.
C16_Witness ==
    /\ cpc = "refreshing"
    /\ frame.kind = "createImage"
    /\ frame.todo = <<>>
    /\ activeGenerationTopicId = 1
    /\ request.state = "resolved"
    /\ \E b \in BatchesOf(1) : IsTempBatch(b, 1, 2)

\* The batches the server holds for a topic.
StoredOf(t) == { stored[t][i] : i \in DOMAIN stored[t] }

\* The batch recreateImage was called with is gone from the store and from
\* the server.
OldBatchRemoved ==
    /\ \A b \in BatchesOf(frame.generationTopicId) : b.id # frame.batch.id
    /\ \A b \in StoredOf(frame.generationTopicId) : b.id # frame.batch.id

\* The ids of the generations and of the tasks of a batch.
GenerationIds(b) == { b.generations[i].id : i \in DOMAIN b.generations }

TaskIds(b) == { b.generations[i].task.id : i \in DOMAIN b.generations }

C17_Order ==
    frame.kind = "recreateImage" =>
        /\ (generationBatchesMap' # generationBatchesMap /\ cpc = "addOptimistic") =>
              /\ OldBatchRemoved
              /\ \E b \in { generationBatchesMap'[frame.generationTopicId][i] :
                              i \in DOMAIN generationBatchesMap'[frame.generationTopicId] } :
                    IsTempBatch(b, frame.now, frame.imageNum)
        /\ SendsRequest =>
              /\ OldBatchRemoved
              /\ \E b \in BatchesOf(frame.generationTopicId) :
                    IsTempBatch(b, frame.now, frame.imageNum)
              /\ request'.generationTopicId = activeGenerationTopicId
              /\ request'.provider = frame.batch.provider
              /\ request'.model = frame.batch.model
              /\ request'.params = frame.batch.config
        /\ (cpc = "requesting" /\ request'.state = "resolved") =>
              \E b \in { stored'[frame.generationTopicId][i] :
                            i \in DOMAIN stored'[frame.generationTopicId] } :
                  /\ b \notin StoredOf(frame.generationTopicId)
                  /\ b.id # frame.batch.id
                  /\ ~b.id.temp
                  /\ b.provider = frame.batch.provider
                  /\ b.model = frame.batch.model
                  /\ b.config = frame.batch.config
                  /\ Len(b.generations) = frame.imageNum
                  /\ GenerationIds(b) \cap GenerationIds(frame.batch) = {}
                  /\ TaskIds(b) \cap TaskIds(frame.batch) = {}
                  /\ \A i \in DOMAIN b.generations : b.generations[i].task.status = Pending

\* C17: recreateImage removes the old batch before it adds the temporary
\* batch and before it sends the request; the request carries the old
\* batch's provider, model and config; and what the request creates is a new
\* batch, with generations and Pending tasks of its own, none of them the
\* old batch's.
C17_RecreateOrder == [][C17_Order]_vars

\* recreateImage of the batch of the first action has resolved: the server
\* and the store hold the batch of the second request and no other.
C17_Witness ==
    /\ outcome = [settled |-> TRUE, kind |-> "recreateImage", result |-> "resolved",
                  generationTopicId |-> 1, now |-> 2]
    /\ request.state = "resolved"
    /\ Len(stored[1]) = 1
    /\ stored[1][1].id = [temp |-> FALSE, n |-> 2]
    /\ stored[1][1].provider = request.provider
    /\ generationBatchesMap[1] = stored[1]

\* A store action has settled and none is running.
Settled == cpc = "idle" /\ outcome # NoOutcome

\* C19: after any invocation of createImage or recreateImage has settled,
\* resolved or thrown, isCreating is false.
C19_IsCreatingReset == Settled => ~isCreating

\* C20: after createImage or recreateImage has settled, in whichever way,
\* the store holds no temporary batch of that invocation under any topic.
C20_NoTempBatchLeft ==
    Settled =>
        \A t \in Topics : \A b \in BatchesOf(t) :
            ~(b.id.temp /\ b.id.n = outcome.now)

\* The exception that started the fallback left the forEach, not
\* createAsyncCaller.
ThrownInLoop(r) == thrown[r] # NotThrown /\ thrown[r] \notin ThrownValues

C18_FallbackCoversBatch ==
    \A r \in Reqs :
        /\ thrown[r] \in ThrownValues => calls[r] = <<>>
        /\ fallback[r] # <<>> =>
              /\ thrown[r] # NotThrown
              /\ DOMAIN fallback[r] = 1..input[r].imageNum
              /\ \A i \in DOMAIN fallback[r] : fallback[r][i] \in {"pending", "ok", "failed"}
        /\ ThrownInLoop(r) =>
              /\ Len(calls[r]) = thrown[r].issued
              /\ Len(calls[r]) < input[r].imageNum
              /\ fallback[r] # <<>>
              /\ \A i \in DOMAIN calls[r] :
                    \E g \in generations :
                        /\ g.id = createdGenerations[r][i].id
                        /\ g.id = calls[r][i].generationId
                        /\ g.asyncTaskId = calls[r][i].taskId

C18_FallbackStep ==
    \A r \in Reqs :
        /\ fallback[r] # <<>> => Len(calls'[r]) = Len(calls[r])
        /\ \A i \in DOMAIN fallback[r] :
              (fallback[r][i] = "pending" /\ fallback'[r][i] = "ok") =>
                  \E g \in generations : \E t \in asyncTasks' :
                      /\ g.id = createdGenerations[r][i].id
                      /\ t.id = g.asyncTaskId
                      /\ t.status = Error
                      /\ t.error.type = ServerError

ReturnedSuccess(r) == response[r] # NoResponse /\ response[r].success

\* C21: every generation object of a success response's data.generations
\* agrees with its committed row: its asyncTaskId is the id of the task
\* created for it in the transaction, which is also the taskId of that
\* generation's remote call when one was issued.
C21_ResponseAgreesWithRows ==
    \A r \in Reqs :
        ReturnedSuccess(r) =>
            \A i \in DOMAIN response[r].data.generations :
                LET returned == response[r].data.generations[i] IN
                /\ \E g \in generations :
                      g.id = returned.id /\ g.asyncTaskId = returned.asyncTaskId
                /\ \A j \in DOMAIN calls[r] :
                      calls[r][j].generationId = returned.id
                          => calls[r][j].taskId = returned.asyncTaskId
====
